---- MODULE Spec2Model ----
(***************************************************************************)
(* Model of src/pdf.go: PDFWriter, a single-pass writer of PDF objects     *)
(* that tracks the byte offset of every object and emits the              *)
(* cross-reference table, trailer and footer on Close.                     *)
(*                                                                         *)
(* Bytes are integers 0..255; a Go string or []byte is a sequence of       *)
(* bytes.  The literals below are the byte values of the string constants  *)
(* of the source, after fmt has processed them ("%%" is one "%").          *)
(***************************************************************************)
EXTENDS Integers, Sequences, FiniteSets, TLC

VARIABLES
    width, height,      \* PDFWriter.width, PDFWriter.height (tenths of a unit)
    pos,                \* PDFWriter.pos
    err,                \* PDFWriter.err ("nil" or the sink's error)
    objOffsets,         \* PDFWriter.objOffsets
    resources,          \* PDFWriter.resources
    graphicsStates,     \* PDFWriter.graphicsStates
    fonts,              \* PDFWriter.fonts
    out,                \* the bytes the sink (PDFWriter.w) has accepted
    sinkCalls,          \* how many times the sink's Write was invoked
    budget,             \* the bytes the sink accepts before it fails (-1: it never fails)
    sinkHist,           \* history: what the sink's Write calls returned
    shadow,             \* a second run of the same operations (see SpecOrder)
    heap,               \* the caller's PDFDict maps, by handle (Go maps are references)
    log,                \* history: one record per WriteObject invocation
    last,               \* history: the last operation, its argument and result
    hist                \* history: results of the resource lookups and of Close

vars == <<width, height, pos, err, objOffsets, resources, graphicsStates,
          fonts, out, sinkCalls, budget, sinkHist, shadow, heap, log, last, hist>>

----------------------------------------------------------------------------
(* String constants of the source, as bytes. *)

s_header == <<37, 80, 68, 70, 45, 49, 46, 55, 10>>  \* "%PDF-1.7\n"
s_obj == <<32, 48, 32, 111, 98, 106, 10>>  \* " 0 obj\n"
s_endobj == <<10, 101, 110, 100, 111, 98, 106, 10>>  \* "\nendobj\n"
s_R == <<32, 48, 32, 82>>  \* " 0 R"
s_slash == <<47>>  \* "/"
s_lbracket == <<91>>  \* "["
s_space == <<32>>  \* " "
s_rbracket == <<93>>  \* "]"
s_dictopen == <<60, 60, 32>>  \* "<< "
s_dictclose == <<62, 62>>  \* ">>"
s_stream == <<10, 115, 116, 114, 101, 97, 109, 10>>  \* "\nstream\n"
s_endstream == <<10, 101, 110, 100, 115, 116, 114, 101, 97, 109>>  \* "\nendstream"
s_lparen == <<40>>  \* "("
s_rparen == <<41>>  \* ")"
s_backslash == <<92>>  \* "\"
s_xref == <<120, 114, 101, 102, 10, 48, 32>>  \* "xref\n0 "
s_xrefFree == <<10, 48, 48, 48, 48, 48, 48, 48, 48, 48, 48, 32, 54, 53, 53, 51, 53, 32, 102, 10>>  \* "\n0000000000 65535 f\n"
s_xrefInUse == <<32, 48, 48, 48, 48, 48, 32, 110, 10>>  \* " 00000 n\n"
s_trailer == <<116, 114, 97, 105, 108, 101, 114, 10>>  \* "trailer\n"
s_starxref == <<10, 115, 116, 97, 114, 120, 114, 101, 102, 10>>  \* "\nstarxref\n"
s_eof == <<10, 37, 37, 69, 79, 70>>  \* "\n%%EOF"
n_ExtGState == <<69, 120, 116, 71, 83, 116, 97, 116, 101>>  \* "ExtGState"
n_Font == <<70, 111, 110, 116>>  \* "Font"
n_ca == <<99, 97>>  \* "ca"
n_GS == <<71, 83>>  \* "GS"
n_F == <<70>>  \* "F"
n_Filter == <<70, 105, 108, 116, 101, 114>>  \* "Filter"
n_Length == <<76, 101, 110, 103, 116, 104>>  \* "Length"
n_Type == <<84, 121, 112, 101>>  \* "Type"
n_Subtype == <<83, 117, 98, 116, 121, 112, 101>>  \* "Subtype"
n_TrueType == <<84, 114, 117, 101, 84, 121, 112, 101>>  \* "TrueType"
n_BaseFont == <<66, 97, 115, 101, 70, 111, 110, 116>>  \* "BaseFont"
n_Page == <<80, 97, 103, 101>>  \* "Page"
n_Parent == <<80, 97, 114, 101, 110, 116>>  \* "Parent"
n_MediaBox == <<77, 101, 100, 105, 97, 66, 111, 120>>  \* "MediaBox"
n_Resources == <<82, 101, 115, 111, 117, 114, 99, 101, 115>>  \* "Resources"
n_Contents == <<67, 111, 110, 116, 101, 110, 116, 115>>  \* "Contents"
n_Pages == <<80, 97, 103, 101, 115>>  \* "Pages"
n_Kids == <<75, 105, 100, 115>>  \* "Kids"
n_Count == <<67, 111, 117, 110, 116>>  \* "Count"
n_Catalog == <<67, 97, 116, 97, 108, 111, 103>>  \* "Catalog"
n_Root == <<82, 111, 111, 116>>  \* "Root"
n_Size == <<83, 105, 122, 101>>  \* "Size"
PDFFilterASCII85 == <<65, 83, 67, 73, 73, 56, 53, 68, 101, 99, 111, 100, 101>>  \* "ASCII85Decode"
PDFFilterFlate == <<70, 108, 97, 116, 101, 68, 101, 99, 111, 100, 101>>  \* "FlateDecode"
mime_ttf == <<102, 111, 110, 116, 47, 116, 116, 102>>  \* "font/ttf"

----------------------------------------------------------------------------
(* fmt verbs. *)

RECURSIVE FmtInt(_)
\* %v and %d of a non-negative integer: its decimal numeral.
FmtInt(n) ==
    IF n < 10 THEN <<48 + n>> ELSE FmtInt(n \div 10) \o <<48 + (n % 10)>>

\* %010d: the numeral, zero-padded on the left to at least ten digits.
FmtInt010(n) == [j \in 1..(10 - Len(FmtInt(n))) |-> 48] \o FmtInt(n)

\* %v of a float64, the value being t/10 with t >= 0: the shortest numeral
\* that round-trips ("100", "0", "0.5").
FmtFloat(t) ==
    FmtInt(t \div 10) \o (IF t % 10 = 0 THEN <<>> ELSE <<46, 48 + (t % 10)>>)

RECURSIVE Replace(_, _, _)
\* strings.Replace(s, old, new, -1) for a one-byte old: every byte old of s
\* becomes new.  (s is split in halves to keep the evaluation shallow.)
Replace(s, old, new) ==
    IF Len(s) = 0 THEN <<>>
    ELSE IF Len(s) = 1 THEN (IF s[1] = old THEN new ELSE s)
    ELSE LET h == Len(s) \div 2
         IN  Replace(SubSeq(s, 1, h), old, new) \o Replace(SubSeq(s, h + 1, Len(s)), old, new)

----------------------------------------------------------------------------
(* The two stream filters (encoding/ascii85 and compress/zlib). *)

\* The five characters of a group of four bytes: the base-85 digits of the
\* 32-bit number the bytes denote, most significant first, each offset by
\* '!' (33).  The number v = hi * 65536 + lo is divided by 85 in two
\* halves, which keeps every intermediate value below 2^31; q is v / 85.
Base85(group) ==
    LET hi == group[1] * 256 + group[2]
        lo == group[3] * 256 + group[4]
        r  == (hi % 85) * 65536 + lo
        q  == (hi \div 85) * 65536 + (r \div 85)
    IN  <<33 + (q \div 614125), 33 + ((q \div 7225) % 85), 33 + ((q \div 85) % 85),
          33 + (q % 85), 33 + (r % 85)>>

RECURSIVE Concat(_, _, _)
\* The sequences ss[lo], ..., ss[hi], one after the other.  (The range is
\* split in halves to keep the evaluation shallow.)
Concat(ss, lo, hi) ==
    IF lo > hi THEN <<>>
    ELSE IF lo = hi THEN ss[lo]
    ELSE Concat(ss, lo, (lo + hi) \div 2) \o Concat(ss, (lo + hi) \div 2 + 1, hi)

\* The characters of the g-th group of b: four bytes become five
\* characters, an all-zero full group becomes "z", and a final group of
\* n < 4 bytes (zero-padded) keeps its first n+1 characters.
ascii85Group(b, g) ==
    LET n     == IF 4 * g <= Len(b) THEN 4 ELSE Len(b) - 4 * (g - 1)
        group == [i \in 1..4 |-> IF i <= n THEN b[4 * (g - 1) + i] ELSE 0]
    IN  IF n = 4 /\ group = <<0, 0, 0, 0>> THEN <<122>>
        ELSE SubSeq(Base85(group), 1, n + 1)

\* ascii85.NewEncoder(&b2); Write(b); Close(): the groups of b in turn.
\* No "<~" "~>".
ascii85Encode(b) ==
    Concat([g \in 1..((Len(b) + 3) \div 4) |-> ascii85Group(b, g)],
           1, (Len(b) + 3) \div 4)

RECURSIVE SumSeq(_, _, _)
\* s[lo] + ... + s[hi].  (The range is split in halves.)
SumSeq(s, lo, hi) ==
    IF lo > hi THEN 0
    ELSE IF lo = hi THEN s[lo]
    ELSE SumSeq(s, lo, (lo + hi) \div 2) + SumSeq(s, (lo + hi) \div 2 + 1, hi)

\* The Adler-32 sums <<a, b>> of the bytes: a is 1 plus the sum of the
\* bytes, b the sum of the values a takes after each byte, both modulo
\* 65521.
Adler32(b) ==
    <<(1 + SumSeq(b, 1, Len(b))) % 65521,
      (Len(b) + SumSeq([i \in 1..Len(b) |-> (Len(b) - i + 1) * b[i]], 1, Len(b))) % 65521>>

\* zlib.NewWriter(&b2); Write(b); Close(): a zlib stream of b, which is the
\* two-byte header 78 9c, a deflate body and the big-endian Adler-32 of b.
\* The deflate body here is one final stored block (01, LEN, ~LEN, the
\* bytes): a valid body for every b shorter than 65536 bytes, the one a
\* writer of compression level 0 emits; at the default level the library
\* chooses, for most inputs, a Huffman-coded body of another length.
zlibEncode(b) ==
    LET n  == Len(b)
        ad == Adler32(b)
    IN  <<120, 156, 1, n % 256, n \div 256, 255 - (n % 256), 255 - (n \div 256)>>
        \o b
        \o <<ad[2] \div 256, ad[2] % 256, ad[1] \div 256, ad[1] % 256>>

\* One turn of the filter loop of writeVal: b2.Bytes() after the switch.
\* A filter that is neither constant leaves b2 empty.
applyFilter(filter, b) ==
    IF filter = PDFFilterASCII85 THEN ascii85Encode(b)
    ELSE IF filter = PDFFilterFlate THEN zlibEncode(b)
    ELSE <<>>

RECURSIVE applyFilters(_, _)
\* for _, filter := range v.filters { ...; b = b2.Bytes() }
applyFilters(filters, b) ==
    IF filters = <<>> THEN b
    ELSE applyFilters(Tail(filters), applyFilter(Head(filters), b))

\* for j := len(v.filters) - 1; j >= 0; j-- { filters = append(filters, PDFName(v.filters[j])) }
reverseFilters(filters) ==
    [j \in 1..Len(filters) |-> [k |-> "name", v |-> filters[Len(filters) + 1 - j]]]

----------------------------------------------------------------------------
(* Values (interface{}) and maps.                                          *)
(* A value is [k |-> kind, v |-> payload]: int and ref carry a number,     *)
(* float a number of tenths, string and name bytes, array a sequence of    *)
(* values, dict a PDFDict, stream [dict, filters, b]; any other kind is a  *)
(* Go value of a type writeVal has no case for.  The dict of a stream is   *)
(* [h, d]: h = "nil" for the nil map, h = "lit" for a map made by a        *)
(* composite literal in the call itself (its pairs are d), and otherwise h *)
(* is the handle of a map the caller keeps (its pairs are heap[h]).        *)
(* A PDFDict is the sequence of its <<key, value>> pairs, keys unique, in  *)
(* insertion order.                                                        *)

VInt(n) == [k |-> "int", v |-> n]
VFloat(t) == [k |-> "float", v |-> t]
VString(s) == [k |-> "string", v |-> s]
PDFRef(n) == [k |-> "ref", v |-> n]
PDFName(s) == [k |-> "name", v |-> s]
PDFArray(a) == [k |-> "array", v |-> a]
PDFDict(d) == [k |-> "dict", v |-> d]
PDFStream(dict, filters, b) ==
    [k |-> "stream", v |-> [dict |-> dict, filters |-> filters, b |-> b]]

\* _, ok := d[key]
DictHas(d, key) == \E i \in 1..Len(d) : d[i][1] = key

\* d[key], for a key that is present
DictGet(d, key) == d[CHOOSE i \in 1..Len(d) : d[i][1] = key][2]

\* d[key] = val: replaces the value of a present key in place, and puts a
\* new key in the next free slot.
DictSet(d, key, val) ==
    IF DictHas(d, key)
    THEN [i \in 1..Len(d) |-> IF d[i][1] = key THEN <<key, val>> ELSE d[i]]
    ELSE Append(d, <<key, val>>)

\* Mutant of rangeOrder: the iteration does not advance, it visits the
\* slot it starts at once per key.
rangeOrder_Stuck(d, rnd) == [i \in 1..Len(d) |-> d[(rnd % Len(d)) + 1]]

\* The order in which "for key, val := range d" visits d: Go starts a map
\* iteration at a random slot, so the order is a rotation of the slots,
\* here the one that starts rnd slots in.
rangeOrder(d, rnd) ==
    IF d = <<>> THEN <<>>
    ELSE LET r == rnd % Len(d)
         IN  SubSeq(d, r + 1, Len(d)) \o SubSeq(d, 1, r)

----------------------------------------------------------------------------
(* The writer.  An operator takes and returns the machine m: the fields of *)
(* PDFWriter (pos, err, objOffsets, resources, graphicsStates, fonts), the *)
(* sink (out, sinkCalls, and budget, the number of bytes it still accepts *)
(* before it fails, -1 when it does not fail), the caller's maps (heap),  *)
(* the history (log), and the environment of the current operation:       *)
(* sinkErr, the error the sink returns when it fails, and rnd, the slot   *)
(* map iterations start at.                                                *)

\* The history of the sink after a Write that returned n and e: reported
\* is the sum of the counts returned, errs the errors returned, in order,
\* firstAt the number of the first call that returned an error (0: none).
sinkReturned(h, call, n, e) ==
    [reported |-> h.reported + n,
     errs |-> IF e = "nil" THEN h.errs ELSE Append(h.errs, e),
     firstAt |-> IF e # "nil" /\ h.firstAt = 0 THEN call ELSE h.firstAt]

\* w.w.Write(b): <<the machine after the call, n, err>>.  The sink accepts
\* all of b, or only the first budget bytes of it and then reports sinkErr.
sinkWrite(m, b) ==
    IF m.budget < 0 \/ Len(b) <= m.budget
    THEN <<[m EXCEPT !.out = @ \o b,
                     !.sinkCalls = @ + 1,
                     !.budget = IF @ < 0 THEN @ ELSE @ - Len(b),
                     !.sinkHist = sinkReturned(@, m.sinkCalls + 1, Len(b), "nil")],
           Len(b), "nil">>
    ELSE <<[m EXCEPT !.out = @ \o SubSeq(b, 1, m.budget),
                     !.sinkCalls = @ + 1,
                     !.budget = 0,
                     !.sinkHist = sinkReturned(@, m.sinkCalls + 1, m.budget, m.sinkErr)],
           m.budget, m.sinkErr>>

\* Mutant of writeBytes: the sink is called whether or not w.err is set.
writeBytes_Unguarded(m, b) ==
    LET r == sinkWrite(m, b)
    IN  [r[1] EXCEPT !.pos = @ + r[2], !.err = r[3]]

\* Mutant of writeBytes: the bytes of a payload are not counted in w.pos.
writeBytes_NoCount(m, b) ==
    IF m.err # "nil" THEN m
    ELSE LET r == sinkWrite(m, b)
         IN  [r[1] EXCEPT !.err = r[3]]

writeBytes(m, b) ==
    IF m.err # "nil" THEN m
    ELSE LET r == sinkWrite(m, b)
         IN  [r[1] EXCEPT !.pos = @ + r[2], !.err = r[3]]

\* Mutant of write: the sink is called whether or not w.err is set.
write_Unguarded(m, b) ==
    LET r == sinkWrite(m, b)
    IN  [r[1] EXCEPT !.pos = @ + r[2], !.err = r[3]]

\* write(s, v...): b is the text fmt makes of s and v, handed to the sink
\* in one Write.
write(m, b) ==
    IF m.err # "nil" THEN m
    ELSE LET r == sinkWrite(m, b)
         IN  [r[1] EXCEPT !.pos = @ + r[2], !.err = r[3]]

\* Mutant of escapeString: the parentheses first, the backslashes last.
escapeString_ParensFirst(v) ==
    Replace(Replace(Replace(v, 40, <<92, 40>>), 41, <<92, 41>>), 92, <<92, 92>>)

\* The three strings.Replace calls of the string case: backslashes first,
\* then each parenthesis.
escapeString(v) ==
    Replace(Replace(Replace(v, 92, <<92, 92>>), 40, <<92, 40>>), 41, <<92, 41>>)

\* Mutant of streamLength: the length of the payload before the filters.
streamLength_Raw(v, b) == VInt(Len(v.b))

\* len(b) in dict["Length"] = len(b), b being the filtered payload of v.
streamLength(v, b) == VInt(Len(b))

\* The stream case up to the call w.writeVal(dict): the dictionary that is
\* rendered, the filtered payload b, and the caller's maps.  v.dict is a
\* map, so the two assignments write into the caller's own map when there
\* is one.
streamDict(hp, v) ==
    LET filters == reverseFilters(v.filters)
        b       == applyFilters(v.filters, v.b)
        dict    == IF v.dict.h = "nil" THEN <<>>
                   ELSE IF v.dict.h = "lit" THEN v.dict.d
                   ELSE hp[v.dict.h]
        dict1   == IF Len(filters) = 1 THEN DictSet(dict, n_Filter, filters[1])
                   ELSE IF Len(filters) > 1
                        THEN DictSet(dict, n_Filter, PDFArray(filters))
                        ELSE dict
        dict2   == DictSet(dict1, n_Length, streamLength(v, b))
    IN  [dict |-> dict2, b |-> b,
         heap |-> IF v.dict.h \in {"nil", "lit"} THEN hp
                  ELSE [hp EXCEPT ![v.dict.h] = dict2]]

\* A call w.write(...) with the text b, and a call w.writeBytes(b).
CallWrite(b) == [f |-> "write", b |-> b]
CallWriteBytes(b) == [f |-> "writeBytes", b |-> b]

RECURSIVE writeVal(_, _, _), writeArray(_, _, _, _, _), writeDict(_, _, _, _, _)

\* writeVal(i): the calls of w.write and w.writeBytes it makes, in order,
\* and the caller's maps after it (neither depends on w.err: the calls are
\* made and return at once when it is set).  Map iterations start at slot
\* rnd.
writeVal(hp, rnd, i) ==
    CASE i.k = "int"    -> [calls |-> <<CallWrite(FmtInt(i.v))>>, heap |-> hp]
      [] i.k = "float"  -> [calls |-> <<CallWrite(FmtFloat(i.v))>>, heap |-> hp]
      [] i.k = "string" ->
            [calls |-> <<CallWrite(s_lparen \o escapeString(i.v) \o s_rparen)>>,
             heap |-> hp]
      [] i.k = "ref"    -> [calls |-> <<CallWrite(FmtInt(i.v) \o s_R)>>, heap |-> hp]
      [] i.k = "name"   -> [calls |-> <<CallWrite(s_slash \o i.v)>>, heap |-> hp]
      [] i.k = "array"  ->
            LET r == writeArray(hp, rnd, i.v, 1, Len(i.v))
            IN  [calls |-> <<CallWrite(s_lbracket)>> \o r.calls \o <<CallWrite(s_rbracket)>>,
                 heap |-> r.heap]
      [] i.k = "dict"   ->
            LET r == writeDict(hp, rnd, rangeOrder(i.v, rnd), 1, Len(i.v))
            IN  [calls |-> <<CallWrite(s_dictopen)>> \o r.calls \o <<CallWrite(s_dictclose)>>,
                 heap |-> r.heap]
      [] i.k = "stream" ->
            LET sd == streamDict(hp, i.v)
                r  == writeVal(sd.heap, rnd, PDFDict(sd.dict))
            IN  [calls |-> r.calls \o <<CallWrite(s_stream), CallWriteBytes(sd.b),
                                        CallWrite(s_endstream)>>,
                 heap |-> r.heap]
      [] OTHER          -> [calls |-> <<>>, heap |-> hp]

\* for j, val := range v { if j != 0 { w.write(" ") }; w.writeVal(val) },
\* for the elements lo..hi of v in turn (split in halves, the first half
\* before the second, to keep the evaluation shallow)
writeArray(hp, rnd, v, lo, hi) ==
    IF lo > hi THEN [calls |-> <<>>, heap |-> hp]
    ELSE IF lo = hi
    THEN LET r == writeVal(hp, rnd, v[lo])
         IN  [calls |-> (IF lo # 1 THEN <<CallWrite(s_space)>> ELSE <<>>) \o r.calls,
              heap |-> r.heap]
    ELSE LET mid == (lo + hi) \div 2
             r1  == writeArray(hp, rnd, v, lo, mid)
             r2  == writeArray(r1.heap, rnd, v, mid + 1, hi)
         IN  [calls |-> r1.calls \o r2.calls, heap |-> r2.heap]

\* for key, val := range v { w.writeVal(key); w.write(" "); w.writeVal(val);
\* w.write(" ") }, for the pairs lo..hi in the order of the iteration
writeDict(hp, rnd, pairs, lo, hi) ==
    IF lo > hi THEN [calls |-> <<>>, heap |-> hp]
    ELSE IF lo = hi
    THEN LET r1 == writeVal(hp, rnd, PDFName(pairs[lo][1]))
             r2 == writeVal(r1.heap, rnd, pairs[lo][2])
         IN  [calls |-> r1.calls \o <<CallWrite(s_space)>> \o r2.calls
                        \o <<CallWrite(s_space)>>,
              heap |-> r2.heap]
    ELSE LET mid == (lo + hi) \div 2
             r1  == writeDict(hp, rnd, pairs, lo, mid)
             r2  == writeDict(r1.heap, rnd, pairs, mid + 1, hi)
         IN  [calls |-> r1.calls \o r2.calls, heap |-> r2.heap]

\* True of every machine.  TLC evaluates a machine only when a
\* field of it is read, deep inside the step that follows; reading pos
\* here evaluates it before that step is entered, which keeps the
\* evaluation shallow.
Evaluated(m) == m.pos >= 0

RECURSIVE doCalls(_, _)
\* The machine after the calls, made one after the other.  (The sequence
\* is split in halves, the first made before the second, to keep the
\* evaluation shallow.)
doCalls(m, calls) ==
    IF calls = <<>> THEN m
    ELSE IF Len(calls) = 1
    THEN (IF calls[1].f = "writeBytes" THEN writeBytes(m, calls[1].b)
          ELSE write(m, calls[1].b))
    ELSE LET h  == Len(calls) \div 2
             m1 == doCalls(m, SubSeq(calls, 1, h))
         IN  IF Evaluated(m1) THEN doCalls(m1, SubSeq(calls, h + 1, Len(calls))) ELSE m1

\* The machine after the calls r.calls, the caller's maps being r.heap.
doWritten(m, r) ==
    IF Len(r.calls) >= 0 THEN doCalls([m EXCEPT !.heap = r.heap], r.calls) ELSE m

\* w.writeVal(i) on the machine.
doWriteVal(m, i) == doWritten(m, writeVal(m.heap, m.rnd, i))

\* Mutant of appendOffset: no offset is recorded once w.err is set.
appendOffset_UnlessError(m) ==
    IF m.err # "nil" THEN m ELSE [m EXCEPT !.objOffsets = Append(@, m.pos)]

\* w.objOffsets = append(w.objOffsets, w.pos)
appendOffset(m) == [m EXCEPT !.objOffsets = Append(@, m.pos)]

\* w.write("%v 0 obj\n", len(w.objOffsets))
writeObjHeader(m) == write(m, FmtInt(Len(m.objOffsets)) \o s_obj)

\* return PDFRef(len(w.objOffsets)), m4 being the machine at the return, m
\* the one at the call and m2 the one after the header.  The log gets one
\* record per invocation: the value; the sink's length and w.err when the
\* header is about to be written (at, e0), after the header (hdr, e1) and
\* at the return (end, e2); the reference returned and len(w.objOffsets)
\* at the return.
writeObjReturn(m, val, m2, m4) ==
    <<[m4 EXCEPT !.log = Append(@,
          [val |-> val, at |-> Len(m.out), e0 |-> m.err,
           hdr |-> Len(m2.out), e1 |-> m2.err,
           end |-> Len(m4.out), e2 |-> m4.err,
           ref |-> PDFRef(Len(m4.objOffsets)), n |-> Len(m4.objOffsets)])],
      PDFRef(Len(m4.objOffsets))>>

\* w.writeVal(val); w.write("\nendobj\n"); return ..., m2 being the machine
\* after the header.
writeObjBody(m, val, m2) ==
    IF Evaluated(m2)
    THEN writeObjReturn(m, val, m2, write(doWriteVal(m2, val), s_endobj))
    ELSE <<m, PDFRef(0)>>

\* WriteObject: <<the machine after the call, the PDFRef returned>>.
WriteObject(m, val) == writeObjBody(m, val, writeObjHeader(appendOffset(m)))

NilDict == [h |-> "nil", d |-> <<>>]
LitDict(d) == [h |-> "lit", d |-> d]
HeapDict(h) == [h |-> h, d |-> <<>>]

\* The fonts the caller holds, by pointer identity: Font.name and the
\* media type Font.Raw() returns.  Two of them carry the same name.
Font ==
    [f1 |-> [name |-> <<77, 121, 32, 70, 111, 110, 116>>, mimetype |-> mime_ttf],  \* "My Font"
     f2 |-> [name |-> <<77, 121, 32, 70, 111, 110, 116>>, mimetype |-> mime_ttf],  \* "My Font"
     f3 |-> [name |-> <<79, 84>>,                                                  \* "OT"
             mimetype |-> <<102, 111, 110, 116, 47, 111, 116, 102>>]]              \* "font/otf"

\* Mutant of gsCached: the lookup never finds the level.
gsCached_Never(m, a) == FALSE

\* _, ok := w.graphicsStates[a]
gsCached(m, a) == a \in DOMAIN m.graphicsStates

\* Mutant of fontCached: the lookup never finds the font.
fontCached_Never(m, f) == FALSE

\* _, ok := w.fonts[f]
fontCached(m, f) == f \in DOMAIN m.fonts

\* GetOpacityGS: <<the machine after the call, the PDFName returned>>.
\* a is the level in tenths.
GetOpacityGS(m, a) ==
    IF gsCached(m, a)
    THEN <<m, PDFName(m.graphicsStates[a])>>
    ELSE LET name == n_GS \o FmtInt(Cardinality(DOMAIN m.graphicsStates))
             ext  == DictGet(m.resources, n_ExtGState).v
             ext1 == DictSet(ext, name, PDFDict(<<<<n_ca, VFloat(a)>>>>))
         IN  <<[m EXCEPT !.graphicsStates = (a :> name) @@ @,
                         !.resources = DictSet(@, n_ExtGState, PDFDict(ext1))],
               PDFName(name)>>

\* Mutant of fontRejected: every format is embedded.
fontRejected_Never(f) == FALSE

\* mimetype, _ := f.Raw(); if mimetype != "font/ttf" { panic(...) }
fontRejected(f) == Font[f].mimetype # mime_ttf

\* The stream GetFont writes for the font f.
fontStream(f) ==
    PDFStream(LitDict(<< <<n_Type, PDFName(n_Font)>>,
                         <<n_Subtype, PDFName(n_TrueType)>>,
                         <<n_BaseFont, PDFName(Replace(Font[f].name, 32, <<95>>))>> >>),
              <<>>, <<>>)

\* Mutant of fontName: the name is numbered by the objects written.
fontName_CountObjects(m) == n_F \o FmtInt(Len(m.objOffsets))

\* name := PDFName(fmt.Sprintf("F%d", len(w.fonts)))
fontName(m) == n_F \o FmtInt(Cardinality(DOMAIN m.fonts))

\* The end of GetFont, wo being what WriteObject left and returned:
\* w.fonts[f] = name; w.resources["Font"].(PDFDict)[name] = ref; return name
fontRegister(f, wo) ==
    IF Evaluated(wo[1])
    THEN <<[wo[1] EXCEPT
              !.fonts = (f :> fontName(wo[1])) @@ @,
              !.resources = DictSet(@, n_Font,
                  PDFDict(DictSet(DictGet(wo[1].resources, n_Font).v,
                                  fontName(wo[1]), wo[2])))],
           PDFName(fontName(wo[1]))>>
    ELSE wo

\* GetFont: <<the machine after the call, the PDFName returned>>, or
\* <<the machine, a value of kind "panic">> when the call panics.
GetFont(m, f) ==
    IF fontCached(m, f)
    THEN <<m, PDFName(m.fonts[f])>>
    ELSE IF fontRejected(f)
    THEN <<m, [k |-> "panic", v |-> <<>>]>>
    ELSE fontRegister(f, WriteObject(m, fontStream(f)))

\* for _, objOffset := range w.objOffsets { w.write("%010d 00000 n\n", objOffset) }
writeOffsets(m, offsets) ==
    doCalls(m, [j \in 1..Len(offsets) |-> CallWrite(FmtInt010(offsets[j]) \o s_xrefInUse)])

\* Mutant of closeContents: the references are PDFRef(j), one short.
closeContents_FromZero(m) == PDFArray([j \in 1..Len(m.objOffsets) |-> PDFRef(j - 1)])

\* contents := PDFArray{}; for j := 0; j < len(w.objOffsets); j++ { ... PDFRef(j+1) }
closeContents(m) == PDFArray([j \in 1..Len(m.objOffsets) |-> PDFRef(j)])

\* Mutant of pageParent: the reference is one short.
pageParent_OffByOne(m) == PDFRef(Len(m.objOffsets) + 1)

\* The forward reference of the Page to its parent, computed before the
\* Page is written.
pageParent(m) == PDFRef(Len(m.objOffsets) + 2)

\* The dictionaries of the Page, the Pages and the Catalog.  The entries
\* of the first are evaluated before the Page is written.
pageDict(m, wd, ht) ==
    PDFDict(<< <<n_Type, PDFName(n_Page)>>,
               <<n_Parent, pageParent(m)>>,
               <<n_MediaBox, PDFArray(<<VFloat(0), VFloat(0), VFloat(wd), VFloat(ht)>>)>>,
               <<n_Resources, PDFDict(m.resources)>>,
               <<n_Contents, closeContents(m)>> >>)
pagesDict(refPage) ==
    PDFDict(<< <<n_Type, PDFName(n_Pages)>>,
               <<n_Kids, PDFArray(<<refPage>>)>>,
               <<n_Count, VInt(1)>> >>)
catalogDict(refPages) ==
    PDFDict(<< <<n_Type, PDFName(n_Catalog)>>, <<n_Pages, refPages>> >>)

\* refCatalog := w.WriteObject(...), pages being what the second call left
\* and returned.
closeCatalog(refPage, pages) ==
    IF Evaluated(pages[1])
    THEN <<WriteObject(pages[1], catalogDict(pages[2])), refPage, pages[2]>>
    ELSE <<pages, refPage, pages[2]>>

\* refPages := w.WriteObject(...), page being what the first call left and
\* returned.
closePages(page) ==
    IF Evaluated(page[1])
    THEN closeCatalog(page[2], WriteObject(page[1], pagesDict(page[2])))
    ELSE <<page, page[2], page[2]>>

\* The three WriteObject calls of Close: <<what the third left and
\* returned (the machine, refCatalog), refPage, refPages>>.
closeObjects(m, wd, ht) == closePages(WriteObject(m, pageDict(m, wd, ht)))

\* Mutant of writeXref: the count leaves out the free entry.
writeXref_CountObjects(m) ==
    writeOffsets(write(m, s_xref \o FmtInt(Len(m.objOffsets)) \o s_xrefFree),
                 m.objOffsets)

\* The cross-reference section: its header with the entry count, the free
\* entry, and one entry per offset.
writeXref(m) ==
    writeOffsets(write(m, s_xref \o FmtInt(Len(m.objOffsets) + 1) \o s_xrefFree),
                 m.objOffsets)

\* Mutant of trailerDict: Size counts the free entry too.
trailerDict_SizeOfXref(m, refCatalog) ==
    PDFDict(<< <<n_Root, refCatalog>>, <<n_Size, VInt(Len(m.objOffsets) + 1)>> >>)

\* PDFDict{"Root": refCatalog, "Size": len(w.objOffsets)}
trailerDict(m, refCatalog) ==
    PDFDict(<< <<n_Root, refCatalog>>, <<n_Size, VInt(Len(m.objOffsets))>> >>)

\* w.write("\nstarxref\n%v\n%%%%EOF", xrefOffset)
writeFooter(m, xrefOffset) == write(m, s_starxref \o FmtInt(xrefOffset) \o s_eof)

\* Mutant of xrefOffsetOf: the offset of the last object.
xrefOffsetOf_LastObject(m) == m.objOffsets[Len(m.objOffsets)]

\* xrefOffset := w.pos, read when the three objects are written
xrefOffsetOf(m) == m.pos

\* return w.err, m8 being the machine at the return, m the one at the
\* call, objs what closeObjects gave, m6 the machine when the trailer
\* dictionary is about to be written.  With the error goes a record of
\* what the call computed and where in the output it wrote: n0, e0 and at
\* are len(w.objOffsets), w.err and the sink's length at the call, xrefAt
\* and trailerAt the sink's length when the cross-reference section and
\* the trailer dictionary begin, calls the number of WriteObject
\* invocations so far, end the sink's length at the return, sinkErrs the
\* errors the sink has returned up to the return.
closeReturn(m, objs, xrefOffset, m6, m8) ==
    <<m8, m8.err,
      [n0 |-> Len(m.objOffsets), e0 |-> m.err, ret |-> m8.err,
       at |-> Len(m.out),
       refPage |-> objs[2], refPages |-> objs[3], refCatalog |-> objs[1][2],
       xrefOffset |-> xrefOffset, xrefAt |-> Len(objs[1][1].out),
       trailerAt |-> Len(m6.out), trailer |-> trailerDict(m6, objs[1][2]),
       calls |-> Len(objs[1][1].log), end |-> Len(m8.out),
       sinkErrs |-> m8.sinkHist.errs]>>

\* w.writeVal(PDFDict{...}); w.write("\nstarxref\n%v\n%%%%EOF", xrefOffset)
closeTrailer(m, objs, xrefOffset, m6) ==
    IF Evaluated(m6)
    THEN closeReturn(m, objs, xrefOffset, m6,
             writeFooter(doWriteVal(m6, trailerDict(m6, objs[1][2])), xrefOffset))
    ELSE closeReturn(m, objs, xrefOffset, m6, m6)

\* xrefOffset := w.pos and the cross-reference section, objs being what
\* closeObjects gave.
closeXref(m, objs) ==
    IF Evaluated(objs[1][1])
    THEN closeTrailer(m, objs, xrefOffsetOf(objs[1][1]),
                      write(writeXref(objs[1][1]), s_trailer))
    ELSE closeReturn(m, objs, 0, m, m)

\* Close: <<the machine after the call, the error returned, the record of
\* the call>>.  wd and ht are w.width and w.height.
Close(m, wd, ht) == closeXref(m, closeObjects(m, wd, ht))

----------------------------------------------------------------------------
(* Bounds and inputs. *)

\* Operations (WriteObject, GetOpacityGS, GetFont, Close) per writer.
MaxOps == 3

\* The sink fails after accepting this many bytes in all (-1: not at all):
\* within the header line, within the first object, further on.
SinkBudgets == {-1, 4, 30, 150}

\* The slots map iterations start at: two orders of every map of two or
\* more keys.  Without a sink call the order leaves no trace.
Rnds == IF err = "nil" THEN {0, 1} ELSE {0}

\* The errors a sink returns: a different one in each operation.
Errors == {"Err0", "Err1", "Err2", "Err3", "Err4", "Err5", "Err6"}
ErrorNow == <<"Err1", "Err2", "Err3", "Err4", "Err5", "Err6">>[hist.ops + 1]

\* width and height, in tenths: 100 x 200.
Dimensions == {<<1000, 2000>>}

\* Opacity levels, in tenths: 0.5 and 1.
Levels == {5, 10}

\* The maps the caller keeps and passes as the dict of its streams.
Heap0 == [h1 |-> <<>>, h2 |-> << <<n_Length, VInt(99)>>, <<n_Type, PDFName(<<88>>)>> >>]

\* The values the caller writes.
Values ==
    { PDFStream(NilDict, <<>>, <<104, 101, 108, 108, 111>>),                 \* "hello"
      PDFStream(HeapDict("h1"), <<PDFFilterFlate>>, <<104, 105>>),           \* "hi"
      PDFStream(HeapDict("h1"), <<>>, <<104, 105>>),
      PDFArray(<<VString(<<97, 40, 92, 41>>), PDFRef(1), [k |-> "bool", v |-> 1]>>) }  \* "a(\)"

\* The current state as a machine, for an operation in which the sink, if
\* it fails, returns the error e and map iterations start at slot rnd.
Machine(e, rnd) ==
    [pos |-> pos, err |-> err, objOffsets |-> objOffsets, resources |-> resources,
     graphicsStates |-> graphicsStates, fonts |-> fonts, out |-> out,
     sinkCalls |-> sinkCalls, heap |-> heap, log |-> log,
     budget |-> budget, sinkHist |-> sinkHist, sinkErr |-> e, rnd |-> rnd]

\* The variables take the machine's fields.
Becomes(m) ==
    /\ pos' = m.pos
    /\ err' = m.err
    /\ objOffsets' = m.objOffsets
    /\ resources' = m.resources
    /\ graphicsStates' = m.graphicsStates
    /\ fonts' = m.fonts
    /\ out' = m.out
    /\ sinkCalls' = m.sinkCalls
    /\ budget' = m.budget
    /\ sinkHist' = m.sinkHist
    /\ heap' = m.heap
    /\ log' = m.log

\* NewPDFWriter(writer, width, height): the writer after construction, the
\* sink accepting b bytes before it fails with e.
NewPDFWriter(b, e, wd, ht) ==
    write([pos |-> 0, err |-> "nil", objOffsets |-> <<>>,
           resources |-> << <<n_ExtGState, PDFDict(<<>>)>>, <<n_Font, PDFDict(<<>>)>> >>,
           graphicsStates |-> <<>>, fonts |-> <<>>, out |-> <<>>,
           sinkCalls |-> 0, heap |-> Heap0, log |-> <<>>,
           budget |-> b, sinkHist |-> [reported |-> 0, errs |-> <<>>, firstAt |-> 0],
           sinkErr |-> e, rnd |-> 0],
          s_header)

\* The history: the number of operations; per level and per font the
\* number of calls and the names returned; per font the numbers of the
\* objects written by its calls; the records of the Close calls; the
\* number of panics; the levels and the fonts in the order of the first
\* call that returned a name for them.
Hist0 ==
    [ops |-> 0, closes |-> <<>>, panics |-> 0,
     gsCalls |-> [a \in Levels |-> 0],
     gsRet |-> [a \in Levels |-> {}],
     fontCalls |-> [f \in DOMAIN Font |-> 0],
     fontRet |-> [f \in DOMAIN Font |-> {}],
     fontObjs |-> [f \in DOMAIN Font |-> {}],
     gsOrder |-> <<>>, fontOrder |-> <<>>]

Init ==
    \E d \in Dimensions, b \in SinkBudgets, e \in {"Err0"} :
        LET m == NewPDFWriter(b, e, d[1], d[2])
        IN  /\ width = d[1]
            /\ height = d[2]
            /\ pos = m.pos
            /\ err = m.err
            /\ objOffsets = m.objOffsets
            /\ resources = m.resources
            /\ graphicsStates = m.graphicsStates
            /\ fonts = m.fonts
            /\ out = m.out
            /\ sinkCalls = m.sinkCalls
            /\ budget = m.budget
            /\ sinkHist = m.sinkHist
            /\ shadow = [m |-> m, closes |-> <<>>]
            /\ heap = m.heap
            /\ log = m.log
            /\ last = [op |-> "NewPDFWriter", arg |-> "-", ret |-> "-"]
            /\ hist = Hist0

\* One operation of the caller: the variables of the writer take what
\* the operation leaves, the history what it returned.
StepWriteObject(val, e, rnd) ==
    /\ hist.ops < MaxOps
    /\ LET r == WriteObject(Machine(e, rnd), val)
       IN  /\ Becomes(r[1])
           /\ last' = [op |-> "WriteObject", arg |-> val, ret |-> r[2]]
    /\ hist' = [hist EXCEPT !.ops = @ + 1]
    /\ UNCHANGED <<width, height>>

\* The operations of the caller on the writer; a second run takes no part.
DoWriteObject(val, e, rnd) == StepWriteObject(val, e, rnd) /\ UNCHANGED shadow

StepGetOpacityGS(a) ==
    /\ hist.ops < MaxOps
    /\ LET r == GetOpacityGS(Machine("nil", 0), a)
       IN  /\ Becomes(r[1])
           /\ last' = [op |-> "GetOpacityGS", arg |-> a, ret |-> r[2]]
           /\ hist' = [hist EXCEPT !.ops = @ + 1, !.gsCalls[a] = @ + 1,
                                    !.gsRet[a] = @ \cup {r[2].v},
                                    !.gsOrder = IF hist.gsCalls[a] = 0
                                                THEN Append(@, a) ELSE @]
    /\ UNCHANGED <<width, height>>

DoGetOpacityGS(a) == StepGetOpacityGS(a) /\ UNCHANGED shadow

StepGetFont(f, e, rnd) ==
    /\ hist.ops < MaxOps
    /\ LET r == GetFont(Machine(e, rnd), f)
       IN  /\ Becomes(r[1])
           /\ last' = [op |-> "GetFont", arg |-> f,
                       ret |-> r[2]]
           /\ hist' = IF r[2].k = "panic"
                      THEN [hist EXCEPT !.ops = @ + 1, !.panics = @ + 1,
                                        !.fontCalls[f] = @ + 1]
                      ELSE [hist EXCEPT !.ops = @ + 1,
                                        !.fontCalls[f] = @ + 1,
                                        !.fontRet[f] = @ \cup {r[2].v},
                                        !.fontObjs[f] = @ \cup ((Len(log) + 1)..Len(r[1].log)),
                                        !.fontOrder = IF hist.fontRet[f] = {}
                                                      THEN Append(@, f) ELSE @]
    /\ UNCHANGED <<width, height>>

DoGetFont(f, e, rnd) == StepGetFont(f, e, rnd) /\ UNCHANGED shadow

StepClose(e, rnd) ==
    /\ hist.ops < MaxOps
    /\ LET r == Close(Machine(e, rnd), width, height)
       IN  /\ Becomes(r[1])
           /\ last' = [op |-> "Close", arg |-> "-", ret |-> r[2]]
           /\ hist' = [hist EXCEPT !.ops = @ + 1, !.closes = Append(@, r[3])]
    /\ UNCHANGED <<width, height>>

DoClose(e, rnd) == StepClose(e, rnd) /\ UNCHANGED shadow

Next ==
    \/ \E val \in Values, rnd \in Rnds : DoWriteObject(val, ErrorNow, rnd)
    \/ \E a \in Levels : DoGetOpacityGS(a)
    \/ \E f \in DOMAIN Font, rnd \in Rnds : DoGetFont(f, ErrorNow, rnd)
    \/ \E rnd \in Rnds : DoClose(ErrorNow, rnd)

Spec == Init /\ [][Next]_vars

----------------------------------------------------------------------------
(* Two specifications that apply writeVal to one value of one kind, drawn *)
(* from a larger set: a stream, a string.                                 *)

\* Payloads have at most MaxPayload bytes, strings at most MaxStrLen bytes.
MaxPayload == 4
MaxStrLen == 3

\* The sequences over S of length at most n.
SeqsUpTo(S, n) == UNION {[1..k -> S] : k \in 0..n}

\* A filter that is neither of the two constants.
PDFFilterLZW == <<76, 90, 87, 68, 101, 99, 111, 100, 101>>  \* "LZWDecode"

\* Lists of none, one and two filters.
FilterLists ==
    { <<>>, <<PDFFilterASCII85>>, <<PDFFilterFlate>>, <<PDFFilterLZW>>,
      <<PDFFilterFlate, PDFFilterASCII85>>, <<PDFFilterASCII85, PDFFilterFlate>>,
      <<PDFFilterASCII85, PDFFilterASCII85>>, <<PDFFilterFlate, PDFFilterLZW>> }

\* Payloads of zero bytes and "h", and "hello"; the nil map and the
\* caller's two maps.
StreamValues ==
    {PDFStream(d, fs, b) :
        d \in {NilDict, HeapDict("h1"), HeapDict("h2")},
        fs \in FilterLists,
        b \in SeqsUpTo({0, 104}, MaxPayload) \cup {<<104, 101, 108, 108, 111>>}}

\* Strings of backslashes, parentheses and "a".
StringValues == {VString(s) : s \in SeqsUpTo({92, 40, 41, 97}, MaxStrLen)}

NextStream ==
    \E val \in StreamValues, rnd \in Rnds :
        hist.ops = 0 /\ DoWriteObject(val, ErrorNow, rnd)

SpecStream == Init /\ [][NextStream]_vars

NextString ==
    \E val \in StringValues :
        hist.ops = 0 /\ DoWriteObject(val, ErrorNow, 0)

SpecString == Init /\ [][NextString]_vars

----------------------------------------------------------------------------
(* A specification of two runs of one sequence of operations on a sink    *)
(* that accepts every Write.  The variables of the writer are the first   *)
(* run; shadow.m is the writer, the sink and the caller's maps of the     *)
(* second, shadow.closes the records of its Close calls.  In each         *)
(* operation the map iterations of the first run start at slot rnd,       *)
(* those of the second at slot rnd2.                                      *)

\* The number of operations of each run.
MaxOrderOps == 2

\* The slots the iterations of the second run start at.
OrderRnds == {1, 2}

\* The values written: dictionaries of two and of three keys and a stream
\* in a map of two keys.
OrderValues ==
    { PDFDict(<< <<n_Type, PDFName(n_Font)>>, <<n_Size, VInt(7)>> >>),
      PDFDict(<< <<n_Type, PDFName(n_Page)>>, <<n_Size, VInt(12)>>,
                 <<n_Kids, PDFArray(<<PDFRef(1)>>)>> >>),
      PDFStream(HeapDict("h2"), <<PDFFilterFlate>>, <<104, 105>>) }

\* The second run's writer, for an operation whose iterations start at rnd2.
ShadowMachine(rnd2) == [shadow.m EXCEPT !.sinkErr = ErrorNow, !.rnd = rnd2]

InitOrder == Init /\ budget = -1

OrderWriteObject(val, rnd, rnd2) ==
    /\ hist.ops < MaxOrderOps
    /\ StepWriteObject(val, ErrorNow, rnd)
    /\ shadow' = [shadow EXCEPT !.m = WriteObject(ShadowMachine(rnd2), val)[1]]

OrderGetOpacityGS(a) ==
    /\ hist.ops < MaxOrderOps
    /\ StepGetOpacityGS(a)
    /\ shadow' = [shadow EXCEPT !.m = GetOpacityGS(ShadowMachine(0), a)[1]]

OrderGetFont(f, rnd, rnd2) ==
    /\ hist.ops < MaxOrderOps
    /\ StepGetFont(f, ErrorNow, rnd)
    /\ shadow' = [shadow EXCEPT !.m = GetFont(ShadowMachine(rnd2), f)[1]]

\* The record of the second run's Close, r being what Close returned.
ShadowClosed(r) == [m |-> r[1], closes |-> Append(shadow.closes, r[3])]

OrderClose(rnd, rnd2) ==
    /\ hist.ops < MaxOrderOps
    /\ StepClose(ErrorNow, rnd)
    /\ shadow' = ShadowClosed(Close(ShadowMachine(rnd2), width, height))

NextOrder ==
    \/ \E val \in OrderValues, rnd \in Rnds, rnd2 \in OrderRnds :
           OrderWriteObject(val, rnd, rnd2)
    \/ OrderGetOpacityGS(5)
    \/ \E rnd \in Rnds, rnd2 \in OrderRnds : OrderGetFont("f1", rnd, rnd2)
    \/ \E rnd \in Rnds, rnd2 \in OrderRnds : OrderClose(rnd, rnd2)

SpecOrder == InitOrder /\ [][NextOrder]_vars

TypeOK ==
    /\ pos \in Nat
    /\ err \in {"nil"} \cup Errors
    /\ budget \in Int
    /\ Len(objOffsets) = Len(log)

----------------------------------------------------------------------------
(* Reading the output back, as a reader of the file would. *)

IsDigit(c) == c >= 48 /\ c <= 57

\* Whether pat occurs in s at (1-based) position i.
MatchAt(s, i, pat) ==
    /\ i >= 1
    /\ i + Len(pat) - 1 <= Len(s)
    /\ SubSeq(s, i, i + Len(pat) - 1) = pat

\* The longest run of digits of s that starts at position i.
DigitsAt(s, i) ==
    IF i < 1 \/ i > Len(s) THEN <<>>
    ELSE SubSeq(s, i, (CHOOSE j \in i..(Len(s) + 1) :
                          /\ j = Len(s) + 1 \/ ~IsDigit(s[j])
                          /\ \A k \in i..(j - 1) : IsDigit(s[k])) - 1)

\* The longest run of digits of s that ends at position i.
DigitsBefore(s, i) ==
    IF i < 1 \/ i > Len(s) THEN <<>>
    ELSE SubSeq(s, i + 1 - (CHOOSE d \in 0..i :
                               /\ d = i \/ ~IsDigit(s[i - d])
                               /\ \A k \in (i - d + 1)..i : IsDigit(s[k])),
                i)

\* The number a decimal numeral denotes (leading zeros allowed).
ParseNat(ds) ==
    SumSeq([i \in 1..Len(ds) |-> (ds[i] - 48) * 10 ^ (Len(ds) - i)], 1, Len(ds))

\* The first position from i on at which pat occurs in s, or 0.
FindFrom(s, i, pat) ==
    IF \E j \in i..Len(s) : MatchAt(s, j, pat)
    THEN CHOOSE j \in i..Len(s) :
            MatchAt(s, j, pat) /\ \A j2 \in i..(j - 1) : ~MatchAt(s, j2, pat)
    ELSE 0

\* The number n such that the text "n 0 obj\n" stands in the output right
\* after the first p bytes, or -1 when no object header stands there.
HeaderNumberAt(p) ==
    LET ds == DigitsAt(out, p + 1)
    IN  IF ds # <<>> /\ MatchAt(out, p + 1 + Len(ds), s_obj) THEN ParseNat(ds) ELSE -1

----------------------------------------------------------------------------
(* C1: offsets *)

\* C1: for every object n of the offset table, the recorded offset equals
\* the number of bytes the sink had accepted when WriteObject was about to
\* emit the header of n; when the sink accepted that header, the text
\* "n 0 obj" stands in the output exactly at the recorded offset; and the
\* offset of the first object is the length of the header line when the
\* sink accepted that line.
C1_OffsetIsHeaderPosition ==
    /\ Len(objOffsets) = Len(log)
    /\ (Len(log) >= 1 /\ log[1].e0 = "nil") => objOffsets[1] = Len(s_header)
    /\ \A n \in 1..Len(objOffsets) :
          /\ objOffsets[n] = log[n].at
          /\ log[n].e1 = "nil" => HeaderNumberAt(objOffsets[n]) = n

\* A finished document without sink failure that holds a caller's stream,
\* a font object and the three objects of Close, the first object standing
\* right after the header line.
C1_Witness ==
    /\ err = "nil"
    /\ Len(hist.closes) = 1
    /\ Len(objOffsets) = 5
    /\ \E f \in DOMAIN Font : hist.fontObjs[f] # {}
    /\ \E n \in 1..Len(log) : log[n].val.k = "stream" /\ log[n].val.v.b # <<>>
    /\ objOffsets[1] = Len(s_header)

\* C2 as stated: every invocation, with the sticky error set or not, returns
\* Reference k, emits header number k, and leaves k offsets.
C2_Original ==
    \A k \in 1..Len(log) :
        /\ log[k].ref = PDFRef(k)
        /\ log[k].n = k
        /\ HeaderNumberAt(log[k].at) = k

\* C2, amended: the k-th invocation of WriteObject, with the sticky error
\* set or not, returns Reference k and leaves k offsets in the table; it
\* emits header number k when the sink accepts the header, and emits
\* nothing at all when the sticky error is already set.
C2_NumbersInWriteOrder ==
    \A k \in 1..Len(log) :
        /\ log[k].ref = PDFRef(k)
        /\ log[k].n = k
        /\ log[k].e1 = "nil" => HeaderNumberAt(log[k].at) = k
        /\ log[k].e0 # "nil" => log[k].end = log[k].at

\* Objects written by the caller, by GetFont and by Close, one of them
\* after the sink has failed.
C2_Witness ==
    /\ Len(log) >= 5
    /\ Len(hist.closes) >= 1
    /\ \E f \in DOMAIN Font : hist.fontObjs[f] # {}
    /\ \E k \in 1..Len(log) : log[k].e0 # "nil"
    /\ \E k \in 1..Len(log) : log[k].e1 = "nil"

----------------------------------------------------------------------------
(* C3: the cross-reference section *)

\* The number in the header line "0 <count>" of the cross-reference
\* section that begins after the first p bytes of the output.
XrefCount(p) == ParseNat(DigitsAt(out, p + 1 + Len(s_xref)))

\* The number of bytes of the output before the first entry of that
\* section, less the line break that ends the header line.
XrefEntries(p) == p + Len(s_xref) + Len(DigitsAt(out, p + 1 + Len(s_xref)))

\* The number of bytes of the output before entry i of that section, the
\* free entry being entry 0: an entry is ten digits, a space, five digits,
\* a space, a flag and a line break.
XrefEntryAt(p, i) == XrefEntries(p) + 1 + (10 + Len(s_xrefInUse)) * i

\* Whether entry i >= 1 is ten digits, the generation 00000 and the flag n.
XrefEntryOK(p, i) ==
    /\ Len(DigitsAt(out, XrefEntryAt(p, i) + 1)) = 10
    /\ MatchAt(out, XrefEntryAt(p, i) + 11, s_xrefInUse)

\* The number the ten digits of entry i denote.
XrefEntryOffset(p, i) ==
    ParseNat(SubSeq(out, XrefEntryAt(p, i) + 1, XrefEntryAt(p, i) + 10))

\* C3: when Close returns nil, the count in the header of the
\* cross-reference section is the number of WriteObject invocations plus
\* one, and the section is that many entries: the free entry, then for
\* i = 1, 2, ... the entry of object i with the offset recorded for i,
\* and right after the last entry the trailer.
C3_XrefCountAndEntries ==
    \A x \in 1..Len(hist.closes) :
        LET c == hist.closes[x]
            p == c.xrefAt
        IN  c.ret = "nil" =>
              /\ MatchAt(out, p + 1, s_xref)
              /\ DigitsAt(out, p + 1 + Len(s_xref)) # <<>>
              /\ XrefCount(p) = c.calls + 1
              /\ MatchAt(out, XrefEntries(p) + 1, s_xrefFree)
              /\ \A i \in 1..(XrefCount(p) - 1) :
                    /\ XrefEntryOK(p, i)
                    /\ XrefEntryOffset(p, i) = objOffsets[i]
              /\ MatchAt(out, XrefEntryAt(p, XrefCount(p)) + 1, s_trailer)

\* Close returned nil after a caller's object and a font object: five
\* objects, six entries.
C3_Witness ==
    /\ Len(hist.closes) = 1
    /\ hist.closes[1].ret = "nil"
    /\ hist.closes[1].n0 = 2
    /\ \E f \in DOMAIN Font : hist.fontObjs[f] # {}
    /\ XrefCount(hist.closes[1].xrefAt) = 6

----------------------------------------------------------------------------
(* C4, C5: the resource caches *)

ExtGStateDict == DictGet(resources, n_ExtGState).v
FontDict == DictGet(resources, n_Font).v

\* C4: every call of GetOpacityGS with level a returns one and the same
\* name, and the ExtGState dictionary holds exactly one entry {ca: a}, under
\* that name; a level never requested has none.
C4_OpacityIdempotent ==
    \A a \in Levels :
        LET entries == {i \in 1..Len(ExtGStateDict) :
                           ExtGStateDict[i][2] = PDFDict(<< <<n_ca, VFloat(a)>> >>)}
        IN  /\ Cardinality(hist.gsRet[a]) <= 1
            /\ hist.gsCalls[a] = 0 => entries = {}
            /\ hist.gsCalls[a] > 0 =>
                  /\ Cardinality(hist.gsRet[a]) = 1
                  /\ Cardinality(entries) = 1
                  /\ \A i \in entries : hist.gsRet[a] = {ExtGStateDict[i][1]}
                  /\ \A i \in entries : \A j \in 1..Len(ExtGStateDict) :
                        ExtGStateDict[j][1] = ExtGStateDict[i][1] => j = i

\* A level requested a second time, after another operation.
C4_Witness ==
    /\ last.op = "GetOpacityGS"
    /\ hist.gsCalls[last.arg] >= 2
    /\ hist.ops >= 3
    /\ hist.ops > hist.gsCalls[last.arg]

\* C5: every call of GetFont with an accepted font f returns one and the
\* same name, all the calls together write exactly one object, and the Font
\* dictionary maps that name to the reference of that object.
C5_FontIdempotent ==
    \A f \in DOMAIN Font :
        /\ Cardinality(hist.fontRet[f]) <= 1
        /\ Font[f].mimetype # mime_ttf => hist.fontRet[f] = {} /\ hist.fontObjs[f] = {}
        /\ (Font[f].mimetype = mime_ttf /\ hist.fontCalls[f] > 0) =>
              /\ Cardinality(hist.fontRet[f]) = 1
              /\ Cardinality(hist.fontObjs[f]) = 1
              /\ \A name \in hist.fontRet[f] : \A n \in hist.fontObjs[f] :
                    /\ DictHas(FontDict, name)
                    /\ DictGet(FontDict, name) = PDFRef(n)
                    /\ log[n].ref = PDFRef(n)
                    /\ log[n].val.k = "stream"
                    /\ Cardinality({i \in 1..Len(FontDict) : FontDict[i][1] = name}) = 1

\* An accepted font requested a second time, after another operation.
C5_Witness ==
    /\ last.op = "GetFont"
    /\ last.ret.k = "name"
    /\ hist.fontCalls[last.arg] >= 2
    /\ hist.ops > hist.fontCalls[last.arg]
    /\ Len(objOffsets) >= 2

----------------------------------------------------------------------------
(* C6, C7, C8: what Close writes *)

\* The invocations of WriteObject whose header, as it stands in the
\* output, carries the number n.
WrittenAs(n) == {k \in 1..Len(log) : HeaderNumberAt(log[k].at) = n}

\* Whether the value is a dictionary with the given Type.
IsDictOfType(val, type) ==
    /\ val.k = "dict"
    /\ DictHas(val.v, n_Type)
    /\ DictGet(val.v, n_Type) = PDFName(type)

\* C6: with N objects written before Close, Close writes the Page as
\* object N+1, the Pages as N+2 and the Catalog as N+3; the Parent of the
\* Page is N+2, the Kids of the Pages are [N+1], the Pages of the Catalog
\* is N+2, the Root of the trailer is N+3; and when Close returns nil each
\* of the three numbers heads exactly one object of the output.
C6_CloseChainResolves ==
    \A x \in 1..Len(hist.closes) :
        LET c == hist.closes[x]
            N == c.n0
        IN  /\ c.calls = N + 3
            /\ c.refPage = PDFRef(N + 1)
            /\ c.refPages = PDFRef(N + 2)
            /\ c.refCatalog = PDFRef(N + 3)
            /\ IsDictOfType(log[N + 1].val, n_Page)
            /\ DictGet(log[N + 1].val.v, n_Parent) = PDFRef(N + 2)
            /\ IsDictOfType(log[N + 2].val, n_Pages)
            /\ DictGet(log[N + 2].val.v, n_Kids) = PDFArray(<<PDFRef(N + 1)>>)
            /\ IsDictOfType(log[N + 3].val, n_Catalog)
            /\ DictGet(log[N + 3].val.v, n_Pages) = PDFRef(N + 2)
            /\ DictGet(c.trailer.v, n_Root) = PDFRef(N + 3)
            /\ c.ret = "nil" =>
                  \A n \in (N + 1)..(N + 3) : WrittenAs(n) = {n}

\* Close returned nil on a writer with no object.
C6_Witness ==
    /\ Len(hist.closes) = 1
    /\ hist.closes[1].n0 = 0
    /\ hist.closes[1].ret = "nil"
    /\ Len(objOffsets) = 3
    /\ WrittenAs(2) = {2}

\* The number after "/Size " in the trailer dictionary that begins after
\* the first p bytes of the output, or -1.
TrailerSize(p) ==
    LET s == FindFrom(out, p + 1, s_slash \o n_Size \o s_space)
    IN  IF s = 0 \/ DigitsAt(out, s + 2 + Len(n_Size)) = <<>> THEN -1
        ELSE ParseNat(DigitsAt(out, s + 2 + Len(n_Size)))

\* C7: when Close returns nil, the Size of the trailer is the number of
\* objects written when the trailer is emitted, N + 3 for N objects
\* written before Close.
C7_TrailerSizeIsObjectCount ==
    \A x \in 1..Len(hist.closes) :
        LET c == hist.closes[x]
        IN  c.ret = "nil" =>
              /\ MatchAt(out, c.trailerAt + 1, s_dictopen)
              /\ TrailerSize(c.trailerAt) = c.n0 + 3
              /\ TrailerSize(c.trailerAt) = c.calls
              /\ TrailerSize(c.trailerAt) = Cardinality({k \in 1..Len(log) : log[k].end <= c.xrefAt})

\* Close returned nil after exactly one object: Size 4.
C7_Witness ==
    /\ Len(hist.closes) = 1
    /\ hist.closes[1].n0 = 1
    /\ hist.closes[1].ret = "nil"
    /\ TrailerSize(hist.closes[1].trailerAt) = 4

\* The number in the footer that ends after the first e bytes of the
\* output, or -1 when no footer ends there.
FooterOffset(e) ==
    LET ds == DigitsBefore(out, e - Len(s_eof))
    IN  IF /\ MatchAt(out, e - Len(s_eof) + 1, s_eof)
           /\ ds # <<>>
           /\ MatchAt(out, e - Len(s_eof) - Len(ds) - Len(s_starxref) + 1, s_starxref)
        THEN ParseNat(ds) ELSE -1

\* C8: when Close returns nil, the number in the footer is the position of
\* the "xref" keyword Close wrote: the number of bytes of the header line
\* and of all the objects, the three of Close included.
C8_FooterPointsAtXref ==
    \A x \in 1..Len(hist.closes) :
        LET c == hist.closes[x]
        IN  c.ret = "nil" =>
              /\ FooterOffset(c.end) >= 0
              /\ FindFrom(out, c.at + 1, <<120, 114, 101, 102>>) = FooterOffset(c.end) + 1
              /\ FooterOffset(c.end) = log[c.calls].end
              /\ x = 1 => FindFrom(out, 1, <<120, 114, 101, 102>>) = FooterOffset(c.end) + 1

\* Close returned nil after a caller's stream and a font object.
C8_Witness ==
    /\ Len(hist.closes) = 1
    /\ hist.closes[1].ret = "nil"
    /\ hist.closes[1].n0 = 2
    /\ \E f \in DOMAIN Font : hist.fontObjs[f] # {}
    /\ \E k \in 1..Len(log) : log[k].val.k = "stream" /\ log[k].val.v.b # <<>>
    /\ FooterOffset(Len(out)) = hist.closes[1].xrefAt

----------------------------------------------------------------------------
(* C9: the Length of a stream *)

\* For the k-th object, a stream: the position of its "stream" marker, the
\* payload that stands between the markers, and the number after
\* "/Length " in its dictionary (-1 when there is none).
StreamMarker(k) == FindFrom(out, log[k].hdr + 1, s_stream)
StreamPayload(k) ==
    SubSeq(out, StreamMarker(k) + Len(s_stream),
           log[k].end - Len(s_endobj) - Len(s_endstream))
StreamLengthEntry(k) ==
    LET key == s_slash \o n_Length \o s_space
        s   == FindFrom(out, log[k].hdr + 1, key)
    IN  IF s = 0 \/ s > StreamMarker(k) \/ DigitsAt(out, s + Len(key)) = <<>> THEN -1
        ELSE ParseNat(DigitsAt(out, s + Len(key)))

\* C9: for every stream the sink accepted, the Length entry of the rendered
\* dictionary is the number of bytes between the "stream" and "endstream"
\* markers, those bytes are the payload after all its filters, and without
\* filters the Length is the length of the raw payload.
C9_LengthIsEncodedByteCount ==
    \A k \in 1..Len(log) :
        (log[k].val.k = "stream" /\ log[k].e2 = "nil") =>
            /\ StreamMarker(k) > 0
            /\ MatchAt(out, log[k].end - Len(s_endobj) - Len(s_endstream) + 1,
                       s_endstream \o s_endobj)
            /\ StreamLengthEntry(k) = Len(StreamPayload(k))
            /\ StreamPayload(k) = applyFilters(log[k].val.v.filters, log[k].val.v.b)
            /\ log[k].val.v.filters = <<>> => StreamLengthEntry(k) = Len(log[k].val.v.b)

\* A stream with two filters in a map that already had a Length of 99: the
\* Length rendered is that of the encoded payload, longer than the raw one.
C9_Witness ==
    /\ Len(log) = 1
    /\ log[1].e2 = "nil"
    /\ log[1].val.k = "stream"
    /\ log[1].val.v.dict.h = "h2"
    /\ log[1].val.v.filters = <<PDFFilterFlate, PDFFilterASCII85>>
    /\ Len(log[1].val.v.b) = 4
    /\ StreamLengthEntry(1) > 4
    /\ StreamLengthEntry(1) # 99

----------------------------------------------------------------------------
(* C10: strings *)

RECURSIVE EscapedOnce(_)
\* s with one backslash added before each backslash and each parenthesis.
EscapedOnce(s) ==
    IF s = <<>> THEN <<>>
    ELSE (IF Head(s) \in {92, 40, 41} THEN <<92, Head(s)>> ELSE <<Head(s)>>)
         \o EscapedOnce(Tail(s))

RECURSIVE Unescape(_)
\* What a reader makes of the body of a string: the byte after a backslash
\* stands for itself.
Unescape(body) ==
    IF body = <<>> THEN <<>>
    ELSE IF Head(body) = 92 /\ Len(body) >= 2
    THEN <<body[2]>> \o Unescape(SubSeq(body, 3, Len(body)))
    ELSE <<Head(body)>> \o Unescape(Tail(body))

\* The text of the k-th object between its header and its "endobj".
Rendered(k) == SubSeq(out, log[k].hdr + 1, log[k].end - Len(s_endobj))

\* C10: a string the sink accepted is rendered as "(", a body and ")", the
\* body being the string with exactly one backslash added before each of
\* its backslashes and parentheses, and un-escaping the body gives the
\* string back.
C10_StringRoundTrip ==
    \A k \in 1..Len(log) :
        (log[k].val.k = "string" /\ log[k].e2 = "nil") =>
            LET r    == Rendered(k)
                body == SubSeq(r, 2, Len(r) - 1)
            IN  /\ Len(r) >= 2
                /\ r[1] = 40
                /\ r[Len(r)] = 41
                /\ body = EscapedOnce(log[k].val.v)
                /\ Unescape(body) = log[k].val.v

\* A string with a backslash and both parentheses was written.
C10_Witness ==
    /\ Len(log) = 1
    /\ log[1].e2 = "nil"
    /\ log[1].val = VString(<<40, 92, 41>>)
    /\ Len(Rendered(1)) = 8

----------------------------------------------------------------------------
(* C11, C17: the sticky error *)

\* C11: Close returns nil exactly when no Write of the sink has returned an
\* error since the construction of the writer (the header included), and
\* otherwise it returns the error of the first Write that failed, whatever
\* was called after the failure.
C11_CloseReturnsFirstError ==
    \A k \in 1..Len(hist.closes) :
        LET c == hist.closes[k]
        IN  /\ c.ret = "nil" <=> c.sinkErrs = <<>>
            /\ c.sinkErrs # <<>> => c.ret = c.sinkErrs[1]

\* The sink failed during the first operation, a second operation followed,
\* and Close, the third, returned the error of the first.
C11_Witness ==
    /\ hist.ops = 3
    /\ last.op = "Close"
    /\ last.ret = "Err1"
    /\ Len(hist.closes) = 1
    /\ hist.closes[1].sinkErrs = <<"Err1">>
    /\ hist.closes[1].e0 = "Err1"

\* The state part of C17: w.pos is the sum of the counts the sink returned,
\* the count of the failing Write included; once a Write has failed it is
\* the last call of the sink and w.err is its error.
C17_PosIsAcceptedCount ==
    /\ pos = sinkHist.reported
    /\ pos = Len(out)
    /\ sinkHist.errs = <<>> => err = "nil" /\ sinkHist.firstAt = 0
    /\ sinkHist.errs # <<>> =>
          /\ sinkHist.errs = <<err>>
          /\ sinkHist.firstAt = sinkCalls

\* The step part of C17: once w.err is set no operation calls the sink,
\* moves w.pos or changes w.err.
C17_FrozenAfterError ==
    err # "nil" => /\ sinkCalls' = sinkCalls
                   /\ pos' = pos
                   /\ err' = err
                   /\ out' = out

\* C17: w.pos always equals the sum of the byte counts the sink reported,
\* the partial count of the failing Write included, and after the first
\* failing Write the sink is never called again, w.pos never changes and
\* w.err keeps the first error.
C17_PosTracksSink == []C17_PosIsAcceptedCount /\ [][C17_FrozenAfterError]_vars

\* The sink accepted the first 30 bytes and failed in the middle of a
\* Write of the first operation; a second operation has run since.
C17_Witness ==
    /\ err = "Err1"
    /\ hist.ops >= 2
    /\ pos = 30
    /\ sinkHist.reported = 30
    /\ sinkHist.firstAt = sinkCalls
    /\ log[1].e1 = "nil"

----------------------------------------------------------------------------
(* C12, C14: operations after a failure and after Close *)

\* C12: once w.err is set, a WriteObject, GetOpacityGS, GetFont or Close
\* leaves the document state as it was: the offset table, the resource
\* dictionary with its two sub-dictionaries, and the two resource caches.
C12_NoOpAfterError ==
    [][err # "nil" => /\ objOffsets' = objOffsets
                      /\ resources' = resources
                      /\ graphicsStates' = graphicsStates
                      /\ fonts' = fonts]_vars

\* C14: after a Close has returned, a WriteObject, GetOpacityGS, GetFont or
\* Close emits no byte and changes neither the offset table nor w.pos nor
\* the resource dictionary.
C14_NoOpAfterClose ==
    [][hist.closes # <<>> => /\ out' = out
                             /\ objOffsets' = objOffsets
                             /\ pos' = pos
                             /\ resources' = resources]_vars

----------------------------------------------------------------------------
(* C13: a font of another format *)

\* The state part of C13: every call of GetFont with a font whose format is
\* not "font/ttf" has panicked, none has returned a name or written an
\* object, and the font is not in the cache.
C13_EveryCallPanics ==
    /\ hist.panics =
          Cardinality({<<f, j>> \in (DOMAIN Font) \X (1..MaxOps) :
                          Font[f].mimetype # mime_ttf /\ j <= hist.fontCalls[f]})
    /\ \A f \in DOMAIN Font :
          Font[f].mimetype # mime_ttf =>
              /\ f \notin DOMAIN fonts
              /\ hist.fontRet[f] = {}
              /\ hist.fontObjs[f] = {}

\* The step part of C13: a call of GetFont with such a font panics and
\* leaves the offset table, w.pos, the sink, the font cache and the
\* resource dictionary as they were.
C13_PanicEmitsNothing ==
    (last'.op = "GetFont" /\ Font[last'.arg].mimetype # mime_ttf) =>
        /\ last'.ret.k = "panic"
        /\ objOffsets' = objOffsets
        /\ pos' = pos
        /\ out' = out
        /\ sinkCalls' = sinkCalls
        /\ fonts' = fonts
        /\ resources' = resources
        /\ log' = log

\* C13: GetFont with a font whose format is not "font/ttf" panics and emits
\* nothing: the offset table, w.pos, the sink's bytes, the font cache and
\* the Font sub-dictionary are unchanged; the font is never cached, so
\* every call with it panics, not only the first.
C13_RejectedFontPanics == []C13_EveryCallPanics /\ [][C13_PanicEmitsNothing]_vars

\* The font of another format was requested a second time, after an object
\* was written, and the call panicked again.
C13_Witness ==
    /\ last.op = "GetFont"
    /\ last.arg = "f3"
    /\ last.ret.k = "panic"
    /\ hist.fontCalls["f3"] = 2
    /\ hist.panics = 2
    /\ Len(objOffsets) = 1
    /\ err = "nil"

----------------------------------------------------------------------------
(* C15: the Filter entry of a stream *)

\* The text of the dictionary of the k-th object, a stream: what stands
\* between its header and the "stream" marker.
StreamDictText(k) == SubSeq(out, log[k].hdr + 1, StreamMarker(k) - 1)

\* The Filter entry a reader expects for the filter list fl (of one filter
\* or more): the name, or the array of the names, the last applied first.
FilterEntryText(fl) ==
    LET names == [j \in 1..Len(fl) |->
                     (IF j = 1 THEN <<>> ELSE s_space) \o s_slash \o fl[Len(fl) + 1 - j]]
    IN  s_slash \o n_Filter \o s_space
        \o (IF Len(fl) = 1 THEN names[1]
            ELSE s_lbracket \o Concat(names, 1, Len(names)) \o s_rbracket)
        \o s_space

\* The positions of the text of the k-th dictionary where a Filter key
\* stands.
FilterKeysAt(k) ==
    {j \in 1..Len(StreamDictText(k)) :
        MatchAt(StreamDictText(k), j, s_slash \o n_Filter \o s_space)}

\* C15: for every stream the sink accepted, whatever was written before it
\* and whatever map it was given, the Filter entry of the rendered
\* dictionary is determined by the stream's own filter list: there is none
\* when the list is empty, it is the single name when the list has one
\* filter, and the array of all the names in the reverse of the order of
\* application when it has several.
C15_FilterEntryFromOwnList ==
    \A k \in 1..Len(log) :
        (log[k].val.k = "stream" /\ log[k].e2 = "nil") =>
            IF log[k].val.v.filters = <<>>
            THEN FilterKeysAt(k) = {}
            ELSE /\ Cardinality(FilterKeysAt(k)) = 1
                 /\ \A j \in FilterKeysAt(k) :
                       MatchAt(StreamDictText(k), j, FilterEntryText(log[k].val.v.filters))

----------------------------------------------------------------------------
(* C16, C19: the order of the keys of a dictionary *)

\* C16: within one run, two renderings of the same dictionary of two keys
\* or more are the same bytes.
C16_SameDictSameBytes ==
    \A j \in 1..Len(log) : \A k \in 1..Len(log) :
        (/\ log[j].val = log[k].val
         /\ log[j].val.k = "dict"
         /\ Len(log[j].val.v) >= 2
         /\ log[j].e2 = "nil"
         /\ log[k].e2 = "nil") =>
            Rendered(j) = Rendered(k)

\* The number after "/Length " in the dictionary of the stream that begins
\* after the first p bytes of the output o, or -1.
LengthEntryIn(o, p) ==
    LET key == s_slash \o n_Length \o s_space
        s   == FindFrom(o, p + 1, key)
    IN  IF s = 0 \/ s > FindFrom(o, p + 1, s_stream) \/ DigitsAt(o, s + Len(key)) = <<>>
        THEN -1
        ELSE ParseNat(DigitsAt(o, s + Len(key)))

\* The text of the cross-reference section (up to the dictionary of the
\* trailer) and of the footer of the Close with record c in the output o.
XrefTextIn(o, c) == SubSeq(o, c.xrefAt + 1, c.trailerAt)
FooterTextIn(o, c) ==
    SubSeq(o, c.end + 1 - Len(s_starxref \o FmtInt(c.xrefOffset) \o s_eof), c.end)

\* C19: two runs of one sequence of operations that differ only in the
\* slots their map iterations start at, on a sink that accepts every
\* Write, have the same offset table and position, the same length of
\* every object, the same Length of every stream, and for every Close the
\* same cross-reference section, entry by entry, and the same footer.
C19_OffsetsIndependentOfOrder ==
    /\ objOffsets = shadow.m.objOffsets
    /\ pos = shadow.m.pos
    /\ Len(out) = Len(shadow.m.out)
    /\ Len(log) = Len(shadow.m.log)
    /\ \A k \in 1..Len(log) :
          /\ log[k].val = shadow.m.log[k].val
          /\ log[k].at = shadow.m.log[k].at
          /\ log[k].end = shadow.m.log[k].end
          /\ log[k].val.k = "stream" =>
                /\ LengthEntryIn(out, log[k].hdr) >= 0
                /\ LengthEntryIn(out, log[k].hdr)
                      = LengthEntryIn(shadow.m.out, shadow.m.log[k].hdr)
    /\ Len(hist.closes) = Len(shadow.closes)
    /\ \A x \in 1..Len(hist.closes) :
          LET c == hist.closes[x]
              d == shadow.closes[x]
          IN  /\ c.ret = "nil" /\ d.ret = "nil"
              /\ c.xrefOffset = d.xrefOffset
              /\ c.xrefAt = d.xrefAt
              /\ c.trailerAt = d.trailerAt
              /\ c.end = d.end
              /\ XrefTextIn(out, c) = XrefTextIn(shadow.m.out, d)
              /\ MatchAt(out, c.xrefAt + 1, s_xref)
              /\ FooterOffset(c.end) = c.xrefOffset
              /\ FooterTextIn(out, c) = FooterTextIn(shadow.m.out, d)

\* A stream in a map of three keys was written and Close has returned; the
\* two runs emitted different bytes and recorded the same four offsets.
C19_Witness ==
    /\ hist.ops = 2
    /\ Len(hist.closes) = 1
    /\ Len(objOffsets) = 4
    /\ log[1].val.k = "stream"
    /\ out # shadow.m.out
    /\ SubSeq(out, 1, log[1].end) # SubSeq(shadow.m.out, 1, log[1].end)
    /\ objOffsets = shadow.m.objOffsets
    /\ LengthEntryIn(shadow.m.out, log[1].hdr) = 13

----------------------------------------------------------------------------
(* C18: the Contents of the Page *)

\* The text "/Contents [1 0 R 2 0 R ... n 0 R] ".
ContentsText(n) ==
    s_slash \o n_Contents \o s_space \o s_lbracket
    \o Concat([j \in 1..n |-> (IF j = 1 THEN <<>> ELSE s_space) \o FmtInt(j) \o s_R], 1, n)
    \o s_rbracket \o s_space

\* The positions of the text of the k-th object where a Contents key stands.
ContentsKeysAt(k) ==
    {j \in 1..Len(Rendered(k)) :
        MatchAt(Rendered(k), j, s_slash \o n_Contents \o s_space)}

\* C18: with N objects in the offset table when Close begins, the Page that
\* Close writes as object N+1 has one Contents entry, the array of the
\* references 1, 2, ..., N in this order: every object written before,
\* those of GetFont included, none of the three objects this Close writes,
\* and the empty array when N = 0.
C18_ContentsIsAllEarlierObjects ==
    \A x \in 1..Len(hist.closes) :
        LET c == hist.closes[x]
        IN  /\ c.refPage = PDFRef(c.n0 + 1)
            /\ IsDictOfType(log[c.n0 + 1].val, n_Page)
            /\ c.ret = "nil" =>
                  /\ HeaderNumberAt(log[c.n0 + 1].at) = c.n0 + 1
                  /\ Cardinality(ContentsKeysAt(c.n0 + 1)) = 1
                  /\ \A j \in ContentsKeysAt(c.n0 + 1) :
                        MatchAt(Rendered(c.n0 + 1), j, ContentsText(c.n0))

\* Close returned nil after a caller's object and a font's object: the
\* Contents of the Page, object 3, are [1 0 R 2 0 R], and the Font
\* dictionary refers to one of the two as well.
C18_Witness ==
    /\ hist.ops = 3
    /\ last.op = "Close"
    /\ last.ret = "nil"
    /\ hist.closes[1].n0 = 2
    /\ \E f \in DOMAIN Font : hist.fontObjs[f] # {} /\ hist.fontObjs[f] \subseteq {1, 2}
    /\ \E i \in 1..Len(FontDict) : FontDict[i][2] \in {PDFRef(1), PDFRef(2)}
    /\ \E j \in ContentsKeysAt(3) : MatchAt(Rendered(3), j, ContentsText(2))

----------------------------------------------------------------------------
(* C20: the names of the resources *)

\* The levels and the fonts GetOpacityGS and GetFont have been called with.
LevelsRequested == {a \in Levels : hist.gsCalls[a] > 0}
FontsRequested == {f \in DOMAIN Font : hist.fontCalls[f] > 0}

\* What C20 says of the levels: distinct levels have distinct names, and
\* the ExtGState dictionary has one entry per level requested, GS0, GS1,
\* ... in the order of the first requests, entry GSi being {ca: level}.
GSNamesOK ==
    /\ DOMAIN graphicsStates = LevelsRequested
    /\ \A a, b \in DOMAIN graphicsStates :
          a # b => graphicsStates[a] # graphicsStates[b]
    /\ Len(ExtGStateDict) = Cardinality(LevelsRequested)
    /\ Len(hist.gsOrder) = Len(ExtGStateDict)
    /\ \A i \in 1..Len(ExtGStateDict) :
          /\ ExtGStateDict[i][1] = n_GS \o FmtInt(i - 1)
          /\ ExtGStateDict[i][2] = PDFDict(<< <<n_ca, VFloat(hist.gsOrder[i])>> >>)
          /\ graphicsStates[hist.gsOrder[i]] = ExtGStateDict[i][1]

\* What C20 says of the fonts but for the number of entries: distinct
\* fonts have distinct names and distinct references, the entries of the
\* Font dictionary are F0, F1, ... in the order of the first requests,
\* and every reference names an object of the offset table.
FontNamesOK ==
    /\ \A f, g \in DOMAIN fonts :
          f # g => /\ fonts[f] # fonts[g]
                   /\ DictGet(FontDict, fonts[f]) # DictGet(FontDict, fonts[g])
    /\ Len(hist.fontOrder) = Len(FontDict)
    /\ \A i \in 1..Len(FontDict) :
          /\ FontDict[i][1] = n_F \o FmtInt(i - 1)
          /\ fonts[hist.fontOrder[i]] = FontDict[i][1]
          /\ FontDict[i][2].k = "ref"
          /\ FontDict[i][2].v \in 1..Len(objOffsets)
          /\ hist.fontObjs[hist.fontOrder[i]] = {FontDict[i][2].v}

\* C20 as stated: the Font dictionary has as many entries as distinct fonts
\* were requested.
C20_Original ==
    /\ GSNamesOK
    /\ FontNamesOK
    /\ Len(FontDict) = Cardinality(FontsRequested)

\* C20: resource names are injective and the caches agree with the
\* resource dictionary: distinct levels have distinct names, distinct
\* fonts distinct names and distinct references; the ExtGState dictionary
\* has one entry per level requested, GS0, GS1, ... in the order of the
\* first requests; the Font dictionary has one entry per requested font of
\* the format "font/ttf", F0, F1, ... in the order of the first requests,
\* and none for a font of another format; every reference of the Font
\* dictionary names an object of the offset table.
C20_NamesInjectiveAndConsistent ==
    /\ GSNamesOK
    /\ FontNamesOK
    /\ DOMAIN fonts = {f \in FontsRequested : Font[f].mimetype = mime_ttf}
    /\ Len(FontDict) = Cardinality({f \in FontsRequested : Font[f].mimetype = mime_ttf})

\* Two fonts of the same name and a font of another format were
\* requested: the dictionary has F0 and F1, whose references are objects
\* 1 and 2, and no entry for the third font.
C20_Witness ==
    /\ FontsRequested = {"f1", "f2", "f3"}
    /\ hist.panics = 1
    /\ Len(FontDict) = 2
    /\ Len(objOffsets) = 2
    /\ FontDict[1] = <<n_F \o FmtInt(0), PDFRef(1)>>
    /\ FontDict[2] = <<n_F \o FmtInt(1), PDFRef(2)>>

====
